---------------------------- MODULE Spec2Model ----------------------------
(***************************************************************************)
(* Model of the two colour-asset generators of GutCheck:                   *)
(*   GutCheck/GutCheck.xcodeproj/generate_color_assets.py  (prefix gen_)   *)
(*   GutCheck/create_colors.py                             (prefix cc_)    *)
(*                                                                         *)
(* Hex strings and formatted numbers are sequences of one-character        *)
(* strings; string literals the scripts copy verbatim are TLA+ strings.    *)
(* A Python float v / 255.0 is the exact rational [num |-> v, den |-> 255] *)
(* (the double differs from it by less than 2^-53, far less than the       *)
(* distance of any v / 255 to a rounding boundary of three decimals).      *)
(* A JSON object is a function from its keys, a JSON array a sequence; a   *)
(* file's content is the document json.dump serialises.                    *)
(***************************************************************************)
EXTENDS Integers, Sequences, FiniteSets, TLC

(***************************************************************************)
(* Bounds of the model.                                                    *)
(***************************************************************************)
\* runs of a script in sequence on the same catalog
MaxRuns == 2
\* catalog entries that exist before the first run
MaxPre == 1
\* leading '#' characters of a hex string given to hex_to_rgb
MaxHashes == 1

(***************************************************************************)
(* The COLORS tables, in insertion order (the order .items() iterates in). *)
(***************************************************************************)
gen_COLORS ==
    << <<"PrimaryColor", <<"#","0","8","9","1","B","2">>, <<"#","0","6","B","6","D","4">> >>,
       <<"AccentColor", <<"#","F","9","7","3","1","6">>, <<"#","F","B","9","2","3","C">> >>,
       <<"SecondaryColor", <<"#","8","B","5","C","F","6">>, <<"#","A","7","8","B","F","A">> >>,
       <<"BackgroundColor", <<"#","F","F","F","F","F","F">>, <<"#","0","F","1","7","2","A">> >>,
       <<"CardBackground", <<"#","F","8","F","A","F","C">>, <<"#","1","E","2","9","3","B">> >>,
       <<"SurfaceColor", <<"#","F","1","F","5","F","9">>, <<"#","3","3","4","1","5","5">> >>,
       <<"PrimaryText", <<"#","0","F","1","7","2","A">>, <<"#","F","8","F","A","F","C">> >>,
       <<"SecondaryText", <<"#","4","7","5","5","6","9">>, <<"#","C","B","D","5","E","1">> >>,
       <<"TertiaryText", <<"#","9","4","A","3","B","8">>, <<"#","6","4","7","4","8","B">> >>,
       <<"SuccessColor", <<"#","1","0","B","9","8","1">>, <<"#","3","4","D","3","9","9">> >>,
       <<"WarningColor", <<"#","F","5","9","E","0","B">>, <<"#","F","B","B","F","2","4">> >>,
       <<"ErrorColor", <<"#","E","F","4","4","4","4">>, <<"#","F","8","7","1","7","1">> >>,
       <<"InfoColor", <<"#","3","B","8","2","F","6">>, <<"#","6","0","A","5","F","A">> >>,
       <<"BorderColor", <<"#","E","2","E","8","F","0">>, <<"#","3","3","4","1","5","5">> >>,
       <<"DisabledColor", <<"#","C","B","D","5","E","1">>, <<"#","4","7","5","5","6","9">> >>,
       <<"InputBackground", <<"#","F","8","F","A","F","C">>, <<"#","1","E","2","9","3","B">> >>,
       <<"SymptomColor", <<"#","E","C","4","8","9","9">>, <<"#","F","4","7","2","B","6">> >> >>

cc_COLORS ==
    << <<"GutCheckPrimary", <<"#","0","8","9","1","B","2">>, <<"#","0","6","B","6","D","4">> >>,
       <<"GutCheckAccent", <<"#","F","9","7","3","1","6">>, <<"#","F","B","9","2","3","C">> >>,
       <<"GutCheckSecondary", <<"#","8","B","5","C","F","6">>, <<"#","A","7","8","B","F","A">> >>,
       <<"GutCheckBackground", <<"#","F","F","F","F","F","F">>, <<"#","0","F","1","7","2","A">> >>,
       <<"GutCheckCardBackground", <<"#","F","8","F","A","F","C">>, <<"#","1","E","2","9","3","B">> >>,
       <<"GutCheckSurface", <<"#","F","1","F","5","F","9">>, <<"#","3","3","4","1","5","5">> >>,
       <<"GutCheckPrimaryText", <<"#","0","F","1","7","2","A">>, <<"#","F","8","F","A","F","C">> >>,
       <<"GutCheckSecondaryText", <<"#","4","7","5","5","6","9">>, <<"#","C","B","D","5","E","1">> >>,
       <<"GutCheckTertiaryText", <<"#","9","4","A","3","B","8">>, <<"#","6","4","7","4","8","B">> >>,
       <<"GutCheckSuccess", <<"#","1","0","B","9","8","1">>, <<"#","3","4","D","3","9","9">> >>,
       <<"GutCheckWarning", <<"#","F","5","9","E","0","B">>, <<"#","F","B","B","F","2","4">> >>,
       <<"GutCheckError", <<"#","E","F","4","4","4","4">>, <<"#","F","8","7","1","7","1">> >>,
       <<"GutCheckInfo", <<"#","3","B","8","2","F","6">>, <<"#","6","0","A","5","F","A">> >>,
       <<"GutCheckBorder", <<"#","E","2","E","8","F","0">>, <<"#","3","3","4","1","5","5">> >>,
       <<"GutCheckDisabled", <<"#","C","B","D","5","E","1">>, <<"#","4","7","5","5","6","9">> >>,
       <<"GutCheckInputBackground", <<"#","F","8","F","A","F","C">>, <<"#","1","E","2","9","3","B">> >>,
       <<"GutCheckSymptom", <<"#","E","C","4","8","9","9">>, <<"#","F","4","7","2","B","6">> >> >>

(***************************************************************************)
(* Text helpers: Python's str.lstrip('#'), slicing h[a:b] and int(s, 16).  *)
(***************************************************************************)
RECURSIVE lstrip(_)
lstrip(h) == IF h # <<>> /\ Head(h) = "#" THEN lstrip(Tail(h)) ELSE h

Slice(h, a, b) == SubSeq(h, a + 1, b)

HexDigitValue(c) ==
    CASE c = "0" -> 0  [] c = "1" -> 1  [] c = "2" -> 2  [] c = "3" -> 3
      [] c = "4" -> 4  [] c = "5" -> 5  [] c = "6" -> 6  [] c = "7" -> 7
      [] c = "8" -> 8  [] c = "9" -> 9
      [] c \in {"A", "a"} -> 10  [] c \in {"B", "b"} -> 11
      [] c \in {"C", "c"} -> 12  [] c \in {"D", "d"} -> 13
      [] c \in {"E", "e"} -> 14  [] c \in {"F", "f"} -> 15

RECURSIVE int16(_)
int16(s) == IF s = <<>> THEN 0
            ELSE 16 * int16(SubSeq(s, 1, Len(s) - 1)) + HexDigitValue(s[Len(s)])

\* x / 255.0
Div255(x) == [num |-> x, den |-> 255]

(***************************************************************************)
(* f"{x:.3f}": the decimal with three fraction digits nearest to x, ties   *)
(* to even.  Thousandths(x) is that decimal counted in thousandths.        *)
(***************************************************************************)
\* mutation of Thousandths: the digits are cut instead of rounded
Thousandths_trunc(x) == (1000 * x.num) \div x.den

Thousandths(x) ==
    LET n == 1000 * x.num
        q == n \div x.den
        r == n % x.den
    IN  IF 2 * r < x.den THEN q
        ELSE IF 2 * r > x.den THEN q + 1
        ELSE IF q % 2 = 0 THEN q ELSE q + 1

DigitChar(d) == <<"0", "1", "2", "3", "4", "5", "6", "7", "8", "9">>[d + 1]

RECURSIVE IntText(_)
IntText(n) == IF n < 10 THEN <<DigitChar(n)>>
              ELSE IntText(n \div 10) \o <<DigitChar(n % 10)>>

Format3f(x) ==
    LET t == Thousandths(x)
    IN  IntText(t \div 1000)
          \o <<".", DigitChar((t \div 100) % 10), DigitChar((t \div 10) % 10),
               DigitChar(t % 10)>>

(***************************************************************************)
(* generate_color_assets.py: hex_to_rgb and create_color_json.             *)
(***************************************************************************)
gen_hex_to_rgb(hex_color) ==
    LET h == lstrip(hex_color)
        r == Div255(int16(Slice(h, 0, 2)))
        g == Div255(int16(Slice(h, 2, 4)))
        b == Div255(int16(Slice(h, 4, 6)))
    IN  <<r, g, b>>

\* mutation of create_color_json: the light entry takes the dark value and
\* the dark entry the light one
create_color_json_swapped(light_hex, dark_hex) ==
    LET light == gen_hex_to_rgb(dark_hex)
        dark  == gen_hex_to_rgb(light_hex)
    IN  [colors |->
          << [color |->
                ("color-space" :> "srgb") @@
                [components |->
                   [alpha |-> <<"1",".","0","0","0">>,
                    blue  |-> Format3f(light[3]),
                    green |-> Format3f(light[2]),
                    red   |-> Format3f(light[1])]],
              idiom |-> "universal"],
             [appearances |->
                << [appearance |-> "luminosity", value |-> "dark"] >>,
              color |->
                ("color-space" :> "srgb") @@
                [components |->
                   [alpha |-> <<"1",".","0","0","0">>,
                    blue  |-> Format3f(dark[3]),
                    green |-> Format3f(dark[2]),
                    red   |-> Format3f(dark[1])]],
              idiom |-> "universal"] >>,
        info |-> [author |-> "xcode", version |-> 1]]

create_color_json(light_hex, dark_hex) ==
    LET light == gen_hex_to_rgb(light_hex)
        dark  == gen_hex_to_rgb(dark_hex)
    IN  [colors |->
          << [color |->
                ("color-space" :> "srgb") @@
                [components |->
                   [alpha |-> <<"1",".","0","0","0">>,
                    blue  |-> Format3f(light[3]),
                    green |-> Format3f(light[2]),
                    red   |-> Format3f(light[1])]],
              idiom |-> "universal"],
             [appearances |->
                << [appearance |-> "luminosity", value |-> "dark"] >>,
              color |->
                ("color-space" :> "srgb") @@
                [components |->
                   [alpha |-> <<"1",".","0","0","0">>,
                    blue  |-> Format3f(dark[3]),
                    green |-> Format3f(dark[2]),
                    red   |-> Format3f(dark[1])]],
              idiom |-> "universal"] >>,
        info |-> [author |-> "xcode", version |-> 1]]

(***************************************************************************)
(* create_colors.py: hex_to_rgb and the inline dict 'data'.                *)
(***************************************************************************)
\* mutation of cc_hex_to_rgb: the slices start at 0, 1, 2
cc_hex_to_rgb_offsets(h0) ==
    LET h == lstrip(h0)
    IN  [k \in 1..3 |->
           LET i == <<0, 1, 2>>[k] IN Div255(int16(Slice(h, i, i + 2)))]

cc_hex_to_rgb(h0) ==
    LET h == lstrip(h0)
    IN  [k \in 1..3 |->
           LET i == <<0, 2, 4>>[k] IN Div255(int16(Slice(h, i, i + 2)))]

cc_data(light, dark) ==
    LET l == cc_hex_to_rgb(light)
        d == cc_hex_to_rgb(dark)
        lr == l[1]  lg == l[2]  lb == l[3]
        dr == d[1]  dg == d[2]  db == d[3]
    IN  [colors |->
          << [color |->
                ("color-space" :> "srgb") @@
                [components |->
                   [alpha |-> <<"1",".","0","0","0">>,
                    blue  |-> Format3f(lb),
                    green |-> Format3f(lg),
                    red   |-> Format3f(lr)]],
              idiom |-> "universal"],
             [appearances |->
                << [appearance |-> "luminosity", value |-> "dark"] >>,
              color |->
                ("color-space" :> "srgb") @@
                [components |->
                   [alpha |-> <<"1",".","0","0","0">>,
                    blue  |-> Format3f(db),
                    green |-> Format3f(dg),
                    red   |-> Format3f(dr)]],
              idiom |-> "universal"] >>,
        info |-> [author |-> "xcode", version |-> 1]]

(***************************************************************************)
(* The scripts and their tables.                                           *)
(***************************************************************************)
Scripts == {"gen", "cc"}

COLORS(s) == IF s = "gen" THEN gen_COLORS ELSE cc_COLORS

Names(s) == [k \in 1..Len(COLORS(s)) |-> COLORS(s)[k][1]]

NameSet(s) == {Names(s)[k] : k \in 1..Len(COLORS(s))}

\* the document a script builds for one table row
ColorDoc(s, light, dark) ==
    IF s = "gen" THEN create_color_json(light, dark) ELSE cc_data(light, dark)

(***************************************************************************)
(* The file system below GutCheck/Assets.xcassets.  assets is what the     *)
(* path GutCheck/Assets.xcassets is: absent, a regular file or a           *)
(* directory.  catalog maps an entry of that directory to a node: absent,  *)
(* a regular file, or a directory holding Contents.json (absent, a file    *)
(* with data, or itself a directory) and possibly one other file.          *)
(***************************************************************************)
\* assets_path / f"{color_name}.colorset"
colorset_path(color_name) == <<color_name, ".colorset">>

\* an entry of the catalog that no script names
OtherEntry == <<"AppIcon", ".appiconset">>

Entries ==
    {colorset_path(n) : n \in NameSet("gen") \cup NameSet("cc")} \cup {OtherEntry}

NoFile == [kind |-> "absent"]
DirFile == [kind |-> "dir"]
File(data) == [kind |-> "file", data |-> data]

\* content of a Contents.json that no script wrote
StaleData == [colors |-> <<>>, info |-> [author |-> "xcode", version |-> 1]]

AbsentNode == [kind |-> "absent", contents |-> NoFile, extra |-> FALSE]
FileNode == [kind |-> "file", contents |-> NoFile, extra |-> FALSE]
EmptyDir == [kind |-> "dir", contents |-> NoFile, extra |-> FALSE]

EmptyCatalog == [e \in Entries |-> AbsentNode]

\* mutation of exists: the check always passes
exists_always(a) == TRUE

\* Path.exists(): true of a directory and of a regular file alike
exists(a) == a # "absent"

Ok(cat) == [ok |-> TRUE, err |-> "", catalog |-> cat]
Raise(err, cat) == [ok |-> FALSE, err |-> err, catalog |-> cat]

\* mutation of mkdir: exist_ok is left at its default, False
mkdir_strict(a, cat, p) ==
    IF a = "absent" THEN Raise("FileNotFoundError", cat)
    ELSE IF a = "file" THEN Raise("NotADirectoryError", cat)
    ELSE IF cat[p].kind # "absent" THEN Raise("FileExistsError", cat)
    ELSE Ok([cat EXCEPT ![p] = EmptyDir])

\* Path.mkdir(exist_ok=True), parents=False
mkdir(a, cat, p) ==
    IF a = "absent" THEN Raise("FileNotFoundError", cat)
    ELSE IF a = "file" THEN Raise("NotADirectoryError", cat)
    ELSE IF cat[p].kind = "dir" THEN Ok(cat)
    ELSE IF cat[p].kind = "file" THEN Raise("FileExistsError", cat)
    ELSE Ok([cat EXCEPT ![p] = EmptyDir])

\* mutation of write_contents: the colorset directory is emptied first
write_contents_wipe(a, cat, p, doc) ==
    IF a = "absent" \/ cat[p].kind = "absent" THEN Raise("FileNotFoundError", cat)
    ELSE IF a = "file" \/ cat[p].kind = "file" THEN Raise("NotADirectoryError", cat)
    ELSE Ok([cat EXCEPT ![p] = [kind |-> "dir", contents |-> File(doc),
                                extra |-> FALSE]])

\* with open(<p>/Contents.json, 'w') as f: json.dump(doc, f, indent=2)
write_contents(a, cat, p, doc) ==
    IF a = "absent" \/ cat[p].kind = "absent" THEN Raise("FileNotFoundError", cat)
    ELSE IF a = "file" \/ cat[p].kind = "file" THEN Raise("NotADirectoryError", cat)
    ELSE IF cat[p].contents.kind = "dir" THEN Raise("IsADirectoryError", cat)
    ELSE Ok([cat EXCEPT ![p].contents = File(doc)])

(***************************************************************************)
(* State.                                                                  *)
(***************************************************************************)
VARIABLES
    assets,         \* what GutCheck/Assets.xcassets is
    catalog,        \* the entries below it
    pc,             \* position of the running script; "idle" between runs
    script,         \* the script that runs, or ran last
    i,              \* position of the for loop in COLORS.items()
    created_count,  \* generate_color_assets.py's counter
    log,            \* the run's prints and file-system calls, in order
    exit_status,    \* the process's exit status; -1 while it runs
    runs,           \* runs started so far
    start,          \* catalog when the current run started
    hist,           \* the earlier runs: script, exit status, catalog before and after
    px              \* inputs and results of the conversions applied on their own

vars == <<assets, catalog, pc, script, i, created_count, log, exit_status,
          runs, start, hist, px>>

runVars == <<assets, catalog, pc, script, i, created_count, log, exit_status,
             runs, start, hist>>

Event(op, name, n) == [op |-> op, name |-> name, n |-> n]
Printed(msg) == Event("print", msg, 0)

PxOff == [light |-> <<>>, dark |-> <<>>, bytes |-> <<>>, done |-> {},
          rgb |-> <<>>, doc |-> <<>>]

(***************************************************************************)
(* Catalogs a run may find: at most MaxPre entries exist, each in one of   *)
(* the states of PreNodes.                                                 *)
(***************************************************************************)
PreEntries ==
    {colorset_path(Names("gen")[1]), colorset_path(Names("gen")[9]),
     colorset_path(Names("cc")[1]), colorset_path(Names("cc")[Len(cc_COLORS)]),
     OtherEntry}

PreNodes ==
    {FileNode,
     EmptyDir,
     [kind |-> "dir", contents |-> File(StaleData), extra |-> TRUE],
     [kind |-> "dir", contents |-> DirFile, extra |-> FALSE]}

PreCatalogs ==
    UNION {
      {[e \in Entries |-> IF e \in S THEN f[e] ELSE AbsentNode] : f \in [S -> PreNodes]}
        : S \in {T \in SUBSET PreEntries : Cardinality(T) <= MaxPre}}

Init ==
    /\ assets \in {"absent", "file", "dir"}
    /\ catalog \in (IF assets = "dir" THEN PreCatalogs ELSE {EmptyCatalog})
    /\ pc = "idle"
    /\ script = "gen"
    /\ i = 1
    /\ created_count = 0
    /\ log = <<>>
    /\ exit_status = -1
    /\ runs = 0
    /\ start = catalog
    /\ hist = <<>>
    /\ px = PxOff

(***************************************************************************)
(* One run of a script.                                                    *)
(***************************************************************************)
\* the interpreter starts the script; the run before it, if any, is history
StartRun(s) ==
    /\ pc \in {"idle", "exit"}
    /\ runs < MaxRuns
    /\ runs' = runs + 1
    /\ script' = s
    /\ hist' = IF pc = "exit"
               THEN Append(hist, [script |-> script, exit_status |-> exit_status,
                                  before |-> start, after |-> catalog])
               ELSE hist
    /\ start' = catalog
    /\ log' = <<>>
    /\ exit_status' = -1
    /\ i' = 1
    /\ created_count' = 0
    /\ pc' = IF s = "gen" THEN "banner" ELSE "check"
    /\ UNCHANGED <<assets, catalog, px>>

\* generate_color_assets.py main: the three banner prints
gen_Banner ==
    /\ pc = "banner"
    /\ log' = Append(log, Printed("banner"))
    /\ pc' = "check"
    /\ UNCHANGED <<assets, catalog, script, i, created_count, exit_status,
                   runs, start, hist, px>>

\* if not assets_path.exists(): print the error and exit with status 1
CheckAssets ==
    /\ pc = "check"
    /\ IF exists(assets)
       THEN /\ log' = Append(log, Event("exists", "true", 0))
            /\ pc' = "found"
            /\ exit_status' = exit_status
       ELSE /\ log' = Append(log, Event("exists", "false", 0))
                        \o <<Printed("not found")>>
                        \o (IF script = "gen" THEN <<Printed("hint")>> ELSE <<>>)
            /\ pc' = "exit"
            /\ exit_status' = 1
    /\ UNCHANGED <<assets, catalog, script, i, created_count, runs, start, hist, px>>

\* the print after the check; created_count = 0 (generate_color_assets.py);
\* the loop begins
Found ==
    /\ pc = "found"
    /\ log' = Append(log, Printed(IF script = "gen" THEN "found" ELSE "creating"))
    /\ created_count' = IF script = "gen" THEN 0 ELSE created_count
    /\ i' = 1
    /\ pc' = "loop"
    /\ UNCHANGED <<assets, catalog, script, exit_status, runs, start, hist, px>>

\* mutation of PrintProgress: the body goes on to the write, without mkdir
PrintProgress_nomkdir ==
    /\ pc = "loop"
    /\ i <= Len(COLORS(script))
    /\ log' = Append(log, Event("progress", Names(script)[i], 0))
    /\ pc' = "write"
    /\ UNCHANGED <<assets, catalog, script, i, created_count, exit_status,
                   runs, start, hist, px>>

\* for ... in COLORS.items(): the loop takes the next colour and prints it
PrintProgress ==
    /\ pc = "loop"
    /\ i <= Len(COLORS(script))
    /\ log' = Append(log, Event("progress", Names(script)[i], 0))
    /\ pc' = "mkdir"
    /\ UNCHANGED <<assets, catalog, script, i, created_count, exit_status,
                   runs, start, hist, px>>

\* mutation of MakeColorset: a failed mkdir is caught and the loop goes on
MakeColorset_swallow ==
    /\ pc = "mkdir"
    /\ LET name == Names(script)[i]
           r == mkdir(assets, catalog, colorset_path(name))
       IN  IF r.ok
           THEN /\ catalog' = r.catalog
                /\ log' = Append(log, Event("mkdir", name, 0))
                /\ pc' = "write"
                /\ i' = i
           ELSE /\ catalog' = r.catalog
                /\ log' = Append(log, Event("raise", r.err, 0))
                /\ pc' = "loop"
                /\ i' = i + 1
    /\ UNCHANGED <<assets, script, created_count, exit_status, runs, start, hist, px>>

\* colorset_path.mkdir(exist_ok=True); an exception ends the process
MakeColorset ==
    /\ pc = "mkdir"
    /\ LET name == Names(script)[i]
           r == mkdir(assets, catalog, colorset_path(name))
       IN  IF r.ok
           THEN /\ catalog' = r.catalog
                /\ log' = Append(log, Event("mkdir", name, 0))
                /\ pc' = "write"
                /\ exit_status' = exit_status
           ELSE /\ catalog' = r.catalog
                /\ log' = Append(log, Event("raise", r.err, 0))
                /\ pc' = "exit"
                /\ exit_status' = 1
    /\ UNCHANGED <<assets, script, i, created_count, runs, start, hist, px>>

\* build the document and dump it to Contents.json
WriteContents ==
    /\ pc = "write"
    /\ LET row == COLORS(script)[i]
           doc == ColorDoc(script, row[2], row[3])
           r == write_contents(assets, catalog, colorset_path(row[1]), doc)
       IN  IF r.ok
           THEN /\ catalog' = r.catalog
                /\ log' = Append(log, Event("write", row[1], 0))
                /\ pc' = IF script = "gen" THEN "incr" ELSE "loop"
                /\ i' = IF script = "gen" THEN i ELSE i + 1
                /\ exit_status' = exit_status
           ELSE /\ catalog' = r.catalog
                /\ log' = Append(log, Event("raise", r.err, 0))
                /\ pc' = "exit"
                /\ i' = i
                /\ exit_status' = 1
    /\ UNCHANGED <<assets, script, created_count, runs, start, hist, px>>

\* mutation of gen_Count: the counter is not incremented
gen_Count_forgot ==
    /\ pc = "incr"
    /\ created_count' = created_count
    /\ i' = i + 1
    /\ pc' = "loop"
    /\ UNCHANGED <<assets, catalog, script, log, exit_status, runs, start, hist, px>>

\* created_count += 1, the last statement of the loop body
gen_Count ==
    /\ pc = "incr"
    /\ created_count' = created_count + 1
    /\ i' = i + 1
    /\ pc' = "loop"
    /\ UNCHANGED <<assets, catalog, script, log, exit_status, runs, start, hist, px>>

\* mutation of Summary: the loop is left one colour early
Summary_early ==
    /\ pc = "loop"
    /\ i >= Len(COLORS(script))
    /\ log' = Append(log, Event("success", "",
                                IF script = "gen" THEN created_count
                                ELSE Len(cc_COLORS)))
                \o <<Printed("next steps")>>
                \o (IF script = "gen" THEN <<Printed("listing")>> ELSE <<>>)
    /\ exit_status' = 0
    /\ pc' = "exit"
    /\ UNCHANGED <<assets, catalog, script, i, created_count, runs, start, hist, px>>

\* the loop is exhausted: the success message, the closing prints, status 0
Summary ==
    /\ pc = "loop"
    /\ i > Len(COLORS(script))
    /\ log' = Append(log, Event("success", "",
                                IF script = "gen" THEN created_count
                                ELSE Len(cc_COLORS)))
                \o <<Printed("next steps")>>
                \o (IF script = "gen" THEN <<Printed("listing")>> ELSE <<>>)
    /\ exit_status' = 0
    /\ pc' = "exit"
    /\ UNCHANGED <<assets, catalog, script, i, created_count, runs, start, hist, px>>

Next ==
    \/ \E s \in Scripts : StartRun(s)
    \/ gen_Banner
    \/ CheckAssets
    \/ Found
    \/ PrintProgress
    \/ MakeColorset
    \/ WriteContents
    \/ gen_Count
    \/ Summary

Spec == Init /\ [][Next]_vars

(***************************************************************************)
(* The conversions on their own: a light and a dark hex string are drawn,  *)
(* and each script's hex_to_rgb and document builder is applied to them.   *)
(* The light string is written from three bytes, with 0..MaxHashes leading *)
(* '#' and upper- or lower-case digits; one byte runs over 0..255 while    *)
(* the other two are taken from SampleBytes.  The pairs of the COLORS table *)
(* are drawn as well.                                                      *)
(***************************************************************************)
HexChars(lower) ==
    IF lower
    THEN <<"0","1","2","3","4","5","6","7","8","9","a","b","c","d","e","f">>
    ELSE <<"0","1","2","3","4","5","6","7","8","9","A","B","C","D","E","F">>

ByteText(v, lower) ==
    <<HexChars(lower)[(v \div 16) + 1], HexChars(lower)[(v % 16) + 1]>>

HexText(hashes, lower, bytes) ==
    [k \in 1..hashes |-> "#"] \o ByteText(bytes[1], lower)
      \o ByteText(bytes[2], lower) \o ByteText(bytes[3], lower)

SampleBytes == {0, 148}

SweepBytes ==
    ((0..255) \X SampleBytes \X SampleBytes)
      \cup (SampleBytes \X (0..255) \X SampleBytes)
      \cup (SampleBytes \X SampleBytes \X (0..255))

DarkSamples == {gen_COLORS[4][3], Tail(cc_COLORS[2][3])}

\* the drawn pairs: the sweep, with the bytes the light string was written
\* from, and the rows of the table, as they stand in the source
PxInputs ==
    {[light |-> HexText(h, lower, t), dark |-> d, bytes |-> t, done |-> {},
      rgb |-> <<>>, doc |-> <<>>] :
        h \in 0..MaxHashes, lower \in BOOLEAN, t \in SweepBytes, d \in DarkSamples}
      \cup
    {[light |-> gen_COLORS[k][2], dark |-> gen_COLORS[k][3], bytes |-> <<>>,
      done |-> {}, rgb |-> <<>>, doc |-> <<>>] : k \in 1..Len(gen_COLORS)}

hex_to_rgb(s, h) == IF s = "gen" THEN gen_hex_to_rgb(h) ELSE cc_hex_to_rgb(h)

InitHex ==
    /\ assets = "dir"
    /\ catalog = EmptyCatalog
    /\ pc = "idle"
    /\ script = "gen"
    /\ i = 1
    /\ created_count = 0
    /\ log = <<>>
    /\ exit_status = -1
    /\ runs = 0
    /\ start = catalog
    /\ hist = <<>>
    /\ px \in PxInputs

\* script s converts the drawn pair
Convert(s) ==
    /\ s \notin px.done
    /\ px' = [px EXCEPT
                !.done = @ \cup {s},
                !.rgb = [t \in px.done \cup {s} |->
                           IF t = s THEN hex_to_rgb(s, px.light) ELSE px.rgb[t]],
                !.doc = [t \in px.done \cup {s} |->
                           IF t = s THEN ColorDoc(s, px.light, px.dark)
                           ELSE px.doc[t]]]
    /\ UNCHANGED runVars

NextHex == \E s \in Scripts : Convert(s)

SpecHex == InitHex /\ [][NextHex]_vars

(***************************************************************************)
(* Properties.                                                             *)
(***************************************************************************)
\* the events of the current run of kind op, in order
EventsOf(op) == SelectSeq(log, LAMBDA e : e.op = op)

\* the names of the Contents.json files written so far in the current run
Written == [k \in 1..Len(EventsOf("write")) |-> EventsOf("write")[k].name]

Raised == EventsOf("raise") # <<>>

Printed_(msg) == \E k \in 1..Len(log) : log[k] = Printed(msg)

\* the document the table of script s gives colour number k
TableDoc(s, k) == ColorDoc(s, COLORS(s)[k][2], COLORS(s)[k][3])

\* C1: a run that starts with GutCheck/Assets.xcassets a directory and in
\* which no mkdir and no write fails ends with exit status 0, having written
\* Contents.json once for each of the 17 names of the script's table and for
\* no other name; the run is bounded: it makes at most 3 * 17 + 6 prints and
\* file-system calls.
C1_AllWritten ==
    /\ Len(log) <= 3 * 17 + 6
    /\ (pc = "exit" /\ assets = "dir" /\ ~Raised) =>
          /\ exit_status = 0
          /\ Len(Written) = 17
          /\ \A n \in NameSet(script) :
                Cardinality({k \in 1..Len(Written) : Written[k] = n}) = 1
          /\ \A k \in 1..Len(Written) : Written[k] \in NameSet(script)
          /\ \A n \in NameSet(script) :
                catalog[colorset_path(n)].contents.kind = "file"

C1_Witness ==
    /\ pc = "exit" /\ assets = "dir" /\ ~Raised /\ script = "cc"
    /\ exit_status = 0 /\ Len(Written) = 17
    /\ start = EmptyCatalog

\* C2: when GutCheck/Assets.xcassets does not exist the run prints the
\* 'not found' error and exits with status 1 without a mkdir, a write, a
\* progress message or a success message, and the catalog stays as it was;
\* in every run the existence check precedes every mkdir and every write.
C2_NotFound ==
    /\ (assets = "absent" /\ pc = "exit") =>
          /\ Printed_("not found")
          /\ exit_status = 1
    /\ assets = "absent" =>
          /\ catalog = start
          /\ catalog = EmptyCatalog
          /\ \A k \in 1..Len(log) :
                log[k].op \notin {"mkdir", "write", "progress", "success", "raise"}
    /\ \A k \in 1..Len(log) :
          (\A j \in 1..k : log[j].op # "exists") =>
             log[k].op \notin {"mkdir", "write", "raise"}

C2_Witness ==
    /\ assets = "absent" /\ pc = "exit" /\ script = "gen" /\ runs = 2
    /\ Printed_("not found") /\ exit_status = 1

\* the row of script s's table for the name n
RowOf(s, n) == COLORS(s)[CHOOSE k \in 1..Len(COLORS(s)) : COLORS(s)[k][1] = n]

\* the byte that hex digits 2k-1 and 2k of a hex string spell, k = 1, 2, 3
Channel(hex, k) == int16(SubSeq(lstrip(hex), 2 * k - 1, 2 * k))

ComponentsFrom(hex) ==
    [alpha |-> <<"1", ".", "0", "0", "0">>,
     red   |-> Format3f(Div255(Channel(hex, 1))),
     green |-> Format3f(Div255(Channel(hex, 2))),
     blue  |-> Format3f(Div255(Channel(hex, 3)))]

HasShape(doc, light, dark) ==
    /\ DOMAIN doc = {"colors", "info"}
    /\ doc.info = [author |-> "xcode", version |-> 1]
    /\ Len(doc.colors) = 2
    /\ LET l == doc.colors[1]
           d == doc.colors[2]
       IN  /\ DOMAIN l = {"color", "idiom"}
           /\ DOMAIN d = {"appearances", "color", "idiom"}
           /\ d.appearances = <<[appearance |-> "luminosity", value |-> "dark"]>>
           /\ l.idiom = "universal" /\ d.idiom = "universal"
           /\ DOMAIN l.color = {"color-space", "components"}
           /\ DOMAIN d.color = {"color-space", "components"}
           /\ l.color["color-space"] = "srgb" /\ d.color["color-space"] = "srgb"
           /\ l.color.components = ComponentsFrom(light)
           /\ d.color.components = ComponentsFrom(dark)

\* C3: the Contents.json a run has just written holds a document of the
\* fixed shape: two entries, the light one first and without 'appearances',
\* the dark one second with appearances = [{luminosity, dark}], components
\* from the colour's own light and dark hex values, srgb, alpha 1.000, idiom
\* universal, info = {author: xcode, version: 1}.
C3_DocumentShape ==
    (log # <<>> /\ log[Len(log)].op = "write") =>
        LET name == log[Len(log)].name
            row == RowOf(script, name)
            c == catalog[colorset_path(name)].contents
        IN  /\ c.kind = "file"
            /\ HasShape(c.data, row[2], row[3])

C3_Witness ==
    /\ script = "gen" /\ log # <<>>
    /\ log[Len(log)] = Event("write", Names("gen")[9], 0)
    /\ start[colorset_path(Names("gen")[9])].contents = File(StaleData)
    /\ HasShape(catalog[colorset_path(Names("gen")[9])].contents.data,
                gen_COLORS[9][2], gen_COLORS[9][3])

\* the two tables agree row by row on (light, dark)
TablesAgree ==
    /\ Len(gen_COLORS) = 17 /\ Len(cc_COLORS) = 17
    /\ \A k \in 1..17 :
          /\ gen_COLORS[k][2] = cc_COLORS[k][2]
          /\ gen_COLORS[k][3] = cc_COLORS[k][3]

\* C4: the two COLORS tables have 17 rows with the same (light, dark) pair
\* at each position, and for a (light, dark) pair, of the table or not,
\* create_color_json and the inline dict of create_colors.py build the same
\* document from the same hex_to_rgb result.
C4_SameDocuments ==
    /\ TablesAgree
    /\ px.done = Scripts =>
          /\ px.rgb["gen"] = px.rgb["cc"]
          /\ px.doc["gen"] = px.doc["cc"]

C4_Witness ==
    /\ px.done = Scripts /\ px.light = cc_COLORS[5][2] /\ px.dark = cc_COLORS[5][3]
    /\ px.doc["gen"] = px.doc["cc"]

\* the number of thousandths a text d.ddd spells
FixedValue(text) ==
    1000 * HexDigitValue(text[1]) + 100 * HexDigitValue(text[3])
      + 10 * HexDigitValue(text[4]) + HexDigitValue(text[5])

IsFixedText(text) ==
    /\ Len(text) = 5 /\ text[2] = "."
    /\ \A k \in {1, 3, 4, 5} :
          text[k] \in {"0", "1", "2", "3", "4", "5", "6", "7", "8", "9"}

Abs(n) == IF n < 0 THEN 0 - n ELSE n

\* C5: hex_to_rgb gives channel k (red, green, blue) the byte v of hex
\* digits 2k-1, 2k over 255, with or without leading '#'; the component
\* text written is d.ddd with thousandths t the integer nearest to
\* 1000 * v / 255 (never a tie), 0.000 for v = 0, 1.000 for v = 255, and
\* not less than the text for v - 1.
C5_Components ==
    \A s \in (IF px.bytes = <<>> THEN {} ELSE px.done) :
        LET comp == px.doc[s].colors[1].color.components
            text == <<comp.red, comp.green, comp.blue>>
        IN  \A k \in 1..3 :
              LET v == px.bytes[k]
                  t == FixedValue(text[k])
              IN  /\ px.rgb[s][k] = [num |-> v, den |-> 255]
                  /\ IsFixedText(text[k])
                  /\ 0 <= t /\ t <= 1000
                  /\ 2 * ((1000 * v) % 255) # 255
                  /\ 2 * Abs(255 * t - 1000 * v) < 255
                  /\ v = 0 => text[k] = <<"0", ".", "0", "0", "0">>
                  /\ v = 255 => text[k] = <<"1", ".", "0", "0", "0">>
                  /\ v > 0 => FixedValue(Format3f(Div255(v - 1))) <= t

C5_Witness ==
    /\ px.done = Scripts /\ px.bytes # <<>> /\ px.bytes[2] = 1 /\ px.light[1] = "#"
    /\ px.doc["gen"].colors[1].color.components.green = <<"0", ".", "0", "0", "4">>

\* the number of write events among the first k events of the run
WritesBefore(k) == Len(SelectSeq(SubSeq(log, 1, k), LAMBDA e : e.op = "write"))

\* C6: the success message comes after the Contents.json of every colour of
\* the table was written, no write follows it, and the number it reports is
\* the number of files the run wrote, 17; created_count is the number of
\* files written whenever the loop of generate_color_assets.py is at its
\* head, and len(COLORS) is that number when create_colors.py leaves its loop.
C6_SuccessCount ==
    /\ \A k \in 1..Len(log) :
          log[k].op = "success" =>
             /\ log[k].n = WritesBefore(k)
             /\ log[k].n = 17
             /\ WritesBefore(k) = Len(Written)
             /\ {Written[j] : j \in 1..Len(Written)} = NameSet(script)
    /\ (script = "gen" /\ pc = "loop") => created_count = Len(Written)
    /\ (script = "cc" /\ pc = "loop" /\ i > Len(cc_COLORS)) =>
          Len(cc_COLORS) = Len(Written)

C6_Witness ==
    /\ pc = "exit" /\ script = "gen" /\ runs = 2
    /\ EventsOf("success") # <<>>
    /\ EventsOf("success")[1].n = 17 /\ created_count = 17

\* the progress, mkdir and write events of the current run, in order
Body == SelectSeq(log, LAMBDA e : e.op \in {"progress", "mkdir", "write"})

\* C7: after the existence check the colours are taken in table order, and
\* for each the progress message comes first, then the mkdir, then the
\* write: the k-th of these events is the ((k-1) mod 3 + 1)-th of the three,
\* for colour (k-1) div 3 + 1.  So a colour's progress message follows the
\* write of the colour before it, and each colour has one progress message.
C7_EventOrder ==
    LET body == Body
        names == Names(script)
    IN  /\ Len(body) <= 3 * Len(names)
        /\ \A k \in 1..Len(body) :
              /\ body[k].op = <<"progress", "mkdir", "write">>[((k - 1) % 3) + 1]
              /\ body[k].name = names[((k - 1) \div 3) + 1]
        /\ body # <<>> => \E k \in 1..Len(log) : log[k] = Event("exists", "true", 0)

C7_Witness ==
    /\ pc = "exit" /\ exit_status = 0 /\ script = "gen" /\ Len(Body) = 51
    /\ Len(EventsOf("progress")) = 17

LastRun == hist[Len(hist)]

\* the colorset entries of script s's table
OwnEntries(s) == {colorset_path(n) : n \in NameSet(s)}

\* C8: a run of the script that ran just before, on a catalog whose
\* GutCheck/Assets.xcassets is a directory, ends with the exit status of
\* that run and leaves the catalog as that run left it.  mkdir raises
\* FileExistsError only for a path that is a regular file, never for an
\* existing directory, and a run that ends with status 0 leaves in every
\* colorset of its table the generated document, whatever was there.
C8_Idempotent ==
    /\ (hist # <<>> /\ pc = "exit" /\ assets = "dir" /\ LastRun.script = script) =>
          /\ catalog = LastRun.after
          /\ exit_status = LastRun.exit_status
    /\ (pc = "exit" /\ log # <<>> /\ log[Len(log)] = Event("raise", "FileExistsError", 0)) =>
          start[colorset_path(Names(script)[i])].kind = "file"
    /\ (pc = "exit" /\ exit_status = 0) =>
          \A k \in 1..Len(COLORS(script)) :
             LET e == catalog[colorset_path(Names(script)[k])]
             IN  e.kind = "dir" /\ e.contents = File(TableDoc(script, k))

C8_Witness ==
    /\ hist # <<>> /\ pc = "exit" /\ assets = "dir" /\ LastRun.script = script
    /\ script = "cc" /\ exit_status = 0 /\ LastRun.exit_status = 0
    /\ catalog = LastRun.after
    /\ LastRun.before[colorset_path(Names("cc")[1])].contents = File(StaleData)

\* the catalog both scripts leave when run on cat0, whatever the order
BothDone(cat0) ==
    [e \in Entries |->
        IF \E s \in Scripts : e \in OwnEntries(s)
        THEN LET s == CHOOSE s \in Scripts : e \in OwnEntries(s)
                 k == CHOOSE k \in 1..Len(COLORS(s)) : e = colorset_path(Names(s)[k])
             IN  [kind |-> "dir", contents |-> File(TableDoc(s, k)),
                  extra |-> cat0[e].extra]
        ELSE cat0[e]]

\* C9: a run leaves every catalog entry that is not a colorset of its own
\* table as it was, and in its own colorsets every file other than
\* Contents.json; it never turns an existing entry into something else.
\* The two tables share no name, so after one script and then the other
\* have run with status 0 the catalog is the one BothDone gives for the
\* catalog before the two runs, the same for either order.
C9_Frame ==
    /\ LET own == OwnEntries(script)
       IN  \A e \in DOMAIN catalog :
              /\ e \notin own => catalog[e] = start[e]
              /\ catalog[e].extra = start[e].extra
              /\ start[e].kind # "absent" => catalog[e].kind = start[e].kind
    /\ NameSet("gen") \cap NameSet("cc") = {}
    /\ OwnEntries("gen") \cap OwnEntries("cc") = {}
    /\ (hist # <<>> /\ pc = "exit" /\ exit_status = 0
          /\ LastRun.script # script /\ LastRun.exit_status = 0) =>
          catalog = BothDone(LastRun.before)

C9_Witness ==
    /\ hist # <<>> /\ pc = "exit" /\ exit_status = 0
    /\ LastRun.script = "cc" /\ script = "gen" /\ LastRun.exit_status = 0
    /\ catalog = BothDone(LastRun.before)
    /\ start[colorset_path(Names("gen")[9])].extra
    /\ catalog[OtherEntry] = hist[1].before[OtherEntry]

\* C10: a failing mkdir or write of colour number i is not caught: the
\* exception is the run's last event and the exit status is 1, not 0; the
\* i - 1 colours before it are written and hold their documents, nothing is
\* written for colour i or a later one, and no success message is printed.
\* A path GutCheck/Assets.xcassets that is a regular file passes the check
\* and fails the first mkdir.
C10_Uncaught ==
    /\ Raised =>
          /\ pc = "exit" /\ exit_status = 1
          /\ Len(EventsOf("raise")) = 1
          /\ log[Len(log)].op = "raise"
          /\ Len(Written) = i - 1
          /\ Written = SubSeq(Names(script), 1, i - 1)
          /\ \A k \in 1..(i - 1) :
                catalog[colorset_path(Names(script)[k])].contents
                   = File(TableDoc(script, k))
          /\ \A k \in (i + 1)..Len(COLORS(script)) :
                catalog[colorset_path(Names(script)[k])] = start[colorset_path(Names(script)[k])]
          /\ catalog[colorset_path(Names(script)[i])].contents
                = start[colorset_path(Names(script)[i])].contents
          /\ EventsOf("success") = <<>>
    /\ (assets = "file" /\ pc = "exit") =>
          /\ Raised /\ i = 1 /\ ~Printed_("not found")
          /\ log[Len(log)] = Event("raise", "NotADirectoryError", 0)
    /\ (pc = "exit" /\ exit_status = 1) => (Raised \/ assets = "absent")

C10_Witness ==
    /\ Raised /\ pc = "exit" /\ exit_status = 1 /\ script = "gen" /\ i = 9
    /\ Len(Written) = 8
    /\ log[Len(log)] = Event("raise", "IsADirectoryError", 0)
=============================================================================
